---- MODULE Spec2Model ----
(***************************************************************************)
(* The persisted authentication store (src/store/authStore.ts) and the     *)
(* route guard that observes it (components/auth/AuthGuard.tsx, kept here  *)
(* as src/unnamed/part_002).                                               *)
(*                                                                         *)
(* The store is a zustand store wrapped in the persist middleware over     *)
(* AsyncStorage.  The middleware issues the storage read when the store is *)
(* created and delivers it asynchronously, merges the record over the      *)
(* in-memory state, then runs the onRehydrateStorage callback; every set() *)
(* of the store starts an asynchronous write of partialize(state).         *)
(* The guard is a React component: a render reads the three selected       *)
(* fields, and the effect of that render runs afterwards with the values   *)
(* the render read.                                                        *)
(***************************************************************************)
EXTENDS Naturals, Sequences, FiniteSets, TLC

\* `null` of the source (token, user and error are `T | null`).
Null == "<null>"

\* Token strings the API or a persisted record can carry; "" is a string the
\* type allows and every truthiness test of the source treats as missing.
Tokens == {"", "t1"}
TokenValues == Tokens \cup {Null}

\* User profiles (by id) and error messages.
Users == {"u1"}
UserValues == Users \cup {Null}
ErrorMsgs == {"e1"}
ErrorValues == ErrorMsgs \cup {Null}

\* Storage writes that may be in flight at once: a write that would exceed
\* the bound makes one of the writes in flight land first.  MaxInFlight bounds
\* the store on its own, GuardInFlight the store observed by a guard.
MaxInFlight == 2
GuardInFlight == 0

\* Times the process may be stopped and started again, and the writes that
\* may be in flight at once in the runs that restart it.
MaxRestarts == 1
RestartInFlight == 1

\* Writes that may be in flight at once in the runs in which storage fails.
FaultyInFlight == 1

\* Writes that may be in flight at once in the runs driven by the useAuth hook.
AuthInFlight == 0

\* Routes: where the guarded screen lives, the default redirect target and a
\* target given through the redirectTo prop.
ProtectedRoute == "/protected"
DefaultRedirect == "/auth/login"
CustomRedirect == "/welcome"

VARIABLES
    store,        \* the in-memory AuthState (the five state properties)
    hydration,    \* "reading" | "merged" | "done": progress of persist's hydrate()
    bootRead,     \* what the getItem issued at store creation returns: <<>> or <<record>>
    storage,      \* the record under "auth-storage": <<>> or <<record>>
    inflight,     \* snapshots handed to AsyncStorage.setItem and not yet landed
    overlap,      \* how many writes may be in flight at once in this run
    restarts,     \* times the process has been stopped and started again
    lost,         \* isLoading and error as they were when the process last stopped
    notified,     \* a set() has called the store's listeners since the guard last looked
    touched,      \* a store operation has been called since the store was created
    lastOp,       \* the last store operation that ran, the token or message it
                  \* was given (setToken, setError) or found (clearAuth), and
                  \* whether it is a clearAuth that directly follows a clearAuth
    fallback,     \* AuthGuard prop: a fallback was supplied
    redirectTo,   \* AuthGuard prop redirectTo, Null when not supplied
    gMounted,     \* the guard has rendered at least once
    gView,        \* the values the guard's last render read through its selectors
    gOut,         \* what the guard's last render returned
    effectPending,\* the effect of the last render has not run yet
    viewRedirects,\* redirects issued by the effect of the last render
    redirected,   \* a redirect has been issued since process start
    nav,          \* the navigator's history stack, current route last
    login,        \* useAuth's login mutation: status, error kept, payload in flight
    signup,       \* useAuth's signup mutation: status and error kept
    google,       \* useAuth's Google login mutation: status and error kept
    formErrors,   \* LoginScreen's local `errors` state, by field
    edited,       \* the fields of the login form edited since Sign In was last pressed
    attempts,     \* login and signup requests handed to the API and not settled
    cache,        \* the query cache: whose server responses it holds (by token)
    lateLogin,    \* the login request in flight was submitted before the last logout
    alert,        \* the dialog SignupScreen has put up, Null when none
    signupErrors, \* SignupScreen's local `errors` state, by field
    profile,      \* the user profile handed to the userDisplayName selector
    result        \* what the last call of getAuthHeader or userDisplayName returned

vars == <<store, hydration, bootRead, storage, inflight, overlap, restarts, lost,
          notified, touched, lastOp,
          fallback, redirectTo, gMounted, gView, gOut, effectPending,
          viewRedirects, redirected, nav, login, signup, google, formErrors,
          edited, attempts, cache, lateLogin, alert, signupErrors, profile, result>>

storeVars == <<store, hydration, bootRead, storage, inflight, notified, touched,
              lastOp>>
guardVars == <<gMounted, gView, gOut, effectPending, viewRedirects, redirected, nav>>
propVars == <<fallback, redirectTo, overlap>>
runVars == <<restarts, lost>>
hookVars == <<login, signup, google, formErrors, edited, attempts, cache,
             lateLogin, alert, signupErrors, profile, result>>
otherVars == <<edited, cache, alert, signupErrors, profile, result>>

-----------------------------------------------------------------------------
(* AuthStore *)

\* `user: null`, and the state of `result` before any call.
NoUser == [id |-> Null, name |-> <<>>, email |-> <<>>]
NoResult == [call |-> "none", isNull |-> TRUE, chars |-> <<>>]

\* JavaScript truthiness of a `string | null`.
Truthy(t) == t # Null /\ t # ""

InitialState ==
    [token |-> Null, user |-> Null, isAuthenticated |-> FALSE,
     isLoading |-> FALSE, error |-> Null]

\* setToken that forgets to clear the error.
setToken_keepsError(s, token) ==
    [s EXCEPT !.token = token, !.isAuthenticated = TRUE]

setToken(s, token) ==
    [s EXCEPT !.token = token, !.isAuthenticated = TRUE, !.error = Null]

setUser(s, user) == [s EXCEPT !.user = user]

\* setError that also drops the token.
setError_dropsToken(s, error) ==
    [s EXCEPT !.error = error, !.isLoading = FALSE, !.token = Null]

setError(s, error) == [s EXCEPT !.error = error, !.isLoading = FALSE]

\* setLoading that also clears the error.
setLoading_clearsError(s, isLoading) ==
    [s EXCEPT !.isLoading = isLoading, !.error = Null]

setLoading(s, isLoading) == [s EXCEPT !.isLoading = isLoading]

\* clearAuth that forgets the user profile.
clearAuth_keepsUser(s) ==
    [s EXCEPT !.token = Null, !.isAuthenticated = FALSE,
              !.isLoading = FALSE, !.error = Null]

clearAuth(s) ==
    [s EXCEPT !.token = Null, !.user = Null, !.isAuthenticated = FALSE,
              !.isLoading = FALSE, !.error = Null]

\* A partialize that persists the whole state.
partialize_all(state) ==
    [token |-> state.token, user |-> state.user,
     isAuthenticated |-> state.isAuthenticated,
     isLoading |-> state.isLoading, error |-> state.error]

partialize(state) ==
    [token |-> state.token, user |-> state.user,
     isAuthenticated |-> state.isAuthenticated]

\* Records that can be found under the storage key at process start: what
\* partialize writes, and malformed or older records.
PersistedRecords ==
    [token : TokenValues, user : UserValues, isAuthenticated : BOOLEAN]

\* persist's default merge: { ...currentState, ...persistedState }.
merge(read, current) ==
    IF read = <<>> THEN current
    ELSE [f \in DOMAIN current |->
            IF f \in DOMAIN read[1] THEN read[1][f] ELSE current[f]]

\* onRehydrateStorage without the repair.
onRehydrateStorage_noRepair(state) == state

\* onRehydrateStorage that repairs without looking at the token.
onRehydrateStorage_noTokenTest(state) ==
    IF ~state.isAuthenticated
    THEN [state EXCEPT !.isAuthenticated = TRUE]
    ELSE state

\* The callback onRehydrateStorage returns, applied to the merged state object.
onRehydrateStorage(state) ==
    IF Truthy(state.token) /\ ~state.isAuthenticated
    THEN [state EXCEPT !.isAuthenticated = TRUE]
    ELSE state

\* set() as the persist middleware wraps it: assign, call the listeners, start
\* the write of the persisted subset.  The steps of hydrate() between the
\* merge and the callback are consecutive microtasks: no caller runs between.
Commit(next, op, arg) ==
    /\ hydration # "merged"
    /\ store' = next
    /\ notified' = TRUE
    /\ LET started == inflight \cup {partialize(next)} IN
         IF Cardinality(started) <= overlap
         THEN /\ inflight' = started
              /\ UNCHANGED storage
         ELSE \E w \in started :
                 /\ storage' = <<w>>
                 /\ inflight' = started \ {w}
    /\ touched' = TRUE
    /\ lastOp' = [name |-> op, arg |-> arg,
                  again |-> op = "clearAuth" /\ lastOp.name = "clearAuth"]
    /\ UNCHANGED <<hydration, bootRead>>
    /\ UNCHANGED guardVars
    /\ UNCHANGED propVars
    /\ UNCHANGED runVars

\* A store operation called on its own.
Set(next, op, arg) ==
    /\ Commit(next, op, arg)
    /\ UNCHANGED hookVars

SetToken == \E t \in Tokens : Set(setToken(store, t), "setToken", t)

SetUser == \E u \in Users : Set(setUser(store, u), "setUser", Null)

SetError == \E e \in ErrorValues : Set(setError(store, e), "setError", e)

SetLoading == \E b \in BOOLEAN : Set(setLoading(store, b), "setLoading", Null)

ClearAuth == Set(clearAuth(store), "clearAuth", store.token)

\* A write handed to AsyncStorage lands.
WriteLands ==
    /\ \E w \in inflight :
         /\ storage' = <<w>>
         /\ inflight' = inflight \ {w}
    /\ UNCHANGED <<store, hydration, bootRead, notified, touched, lastOp>>
    /\ UNCHANGED guardVars
    /\ UNCHANGED propVars
    /\ UNCHANGED runVars
    /\ UNCHANGED hookVars

\* hydrate(), second step: the read has arrived; the merged state replaces
\* the store's state and the listeners are called.  No write is started.
RehydrateMerge ==
    /\ hydration = "reading"
    /\ store' = merge(bootRead, store)
    /\ notified' = TRUE
    /\ hydration' = "merged"
    /\ lastOp' = [name |-> "merge", arg |-> Null, again |-> FALSE]
    /\ UNCHANGED <<bootRead, storage, inflight, touched>>
    /\ UNCHANGED guardVars
    /\ UNCHANGED propVars
    /\ UNCHANGED runVars
    /\ UNCHANGED hookVars

\* hydrate(), last step: the callback mutates the state object in place (no
\* listener is called, no write is started) and hydration is finished.
RehydrateCallback ==
    /\ hydration = "merged"
    /\ store' = onRehydrateStorage(store)
    /\ hydration' = "done"
    /\ lastOp' = [name |-> "rehydrate", arg |-> Null, again |-> FALSE]
    /\ UNCHANGED <<bootRead, storage, inflight, notified, touched>>
    /\ UNCHANGED guardVars
    /\ UNCHANGED propVars
    /\ UNCHANGED runVars
    /\ UNCHANGED hookVars

\* The characters of each token.
tokenChars == [t \in Tokens |-> IF t = "t1" THEN <<"t", "1">> ELSE <<>>]

\* A getAuthHeader without the test of the token.
getAuthHeader_noTokenTest(state) ==
    [isNull |-> FALSE,
     chars |-> <<"B", "e", "a", "r", "e", "r", " ">> \o
               (IF state.token = Null THEN <<"n", "u", "l", "l">>
                ELSE tokenChars[state.token])]

\* getAuthHeader: token ? `Bearer ${token}` : null
getAuthHeader(state) ==
    IF Truthy(state.token)
    THEN [isNull |-> FALSE,
          chars |-> <<"B", "e", "a", "r", "e", "r", " ">> \o tokenChars[state.token]]
    ELSE [isNull |-> TRUE, chars |-> <<>>]

\* The profiles a user object can carry: with or without a name, and with
\* an address that has a local part, has none, or has no "@".
Profiles ==
    [id : Users,
     name : {<<>>, <<"A", "n", "n">>},
     email : {<<>>, <<"a", "n", "n">>, <<"@", "x", ".", "i", "o">>,
              <<"a", "n", "n", "@", "x", ".", "i", "o">>}]

\* str.split("@")[0]
splitAtFirst(str) ==
    LET ats == {i \in 1..Len(str) : str[i] = "@"} IN
      IF ats = {} THEN str
      ELSE SubSeq(str, 1, (CHOOSE i \in ats : \A j \in ats : i <= j) - 1)

\* A userDisplayName that prefers the address to the name.
userDisplayName_emailFirst(state) ==
    IF state.user.id = Null THEN <<"U", "s", "e", "r">>
    ELSE IF splitAtFirst(state.user.email) # <<>> THEN splitAtFirst(state.user.email)
    ELSE IF state.user.name # <<>> THEN state.user.name
    ELSE <<"U", "s", "e", "r">>

\* authSelectors.userDisplayName:
\* state.user?.name || state.user?.email?.split("@")[0] || "User"
userDisplayName(state) ==
    IF state.user.id = Null THEN <<"U", "s", "e", "r">>
    ELSE IF state.user.name # <<>> THEN state.user.name
    ELSE IF splitAtFirst(state.user.email) # <<>> THEN splitAtFirst(state.user.email)
    ELSE <<"U", "s", "e", "r">>

\* A caller reads the authorization header.
GetAuthHeader ==
    /\ result' = [call |-> "getAuthHeader",
                  isNull |-> getAuthHeader(store).isNull,
                  chars |-> getAuthHeader(store).chars]
    /\ UNCHANGED <<login, signup, google, formErrors, edited, attempts, cache,
                   lateLogin, alert, signupErrors, profile>>
    /\ UNCHANGED storeVars
    /\ UNCHANGED guardVars
    /\ UNCHANGED propVars
    /\ UNCHANGED runVars

\* A component selects the display name of the user.
UserDisplayName ==
    /\ result' = [call |-> "userDisplayName", isNull |-> FALSE,
                  chars |-> userDisplayName([user |-> profile])]
    /\ UNCHANGED <<login, signup, google, formErrors, edited, attempts, cache,
                   lateLogin, alert, signupErrors, profile>>
    /\ UNCHANGED storeVars
    /\ UNCHANGED guardVars
    /\ UNCHANGED propVars
    /\ UNCHANGED runVars

\* A failed read that marks the store authenticated.
rehydrateError_authenticates(current) ==
    [current EXCEPT !.isAuthenticated = TRUE]

\* What a failed read leaves in the store: hydrate() catches the error and
\* calls the onRehydrateStorage callback with no state, which then does
\* nothing.
rehydrateError(current) == current

\* hydrate() when getItem rejects or the record cannot be parsed: nothing is
\* merged, no listener is called, no write is started.
RehydrateFails ==
    /\ hydration = "reading"
    /\ store' = rehydrateError(store)
    /\ hydration' = "failed"
    /\ lastOp' = [name |-> "rehydrateError", arg |-> Null, again |-> FALSE]
    /\ UNCHANGED <<bootRead, storage, inflight, notified, touched>>
    /\ UNCHANGED guardVars
    /\ UNCHANGED propVars
    /\ UNCHANGED runVars
    /\ UNCHANGED hookVars

\* A write handed to AsyncStorage is rejected: the promise of setItem is not
\* awaited and nothing handles its rejection.
WriteFails ==
    /\ \E w \in inflight : inflight' = inflight \ {w}
    /\ UNCHANGED <<store, hydration, bootRead, storage, notified, touched, lastOp>>
    /\ UNCHANGED guardVars
    /\ UNCHANGED propVars
    /\ UNCHANGED runVars
    /\ UNCHANGED hookVars

-----------------------------------------------------------------------------
(* AuthGuard *)

\* The three selector subscriptions of the component.
Selected(s) ==
    [isAuthenticated |-> s.isAuthenticated, isLoading |-> s.isLoading,
     token |-> s.token]

\* A render that tests isAuthenticated alone.
Render_noTokenTest(v, hasFallback) ==
    IF v.isLoading THEN "loading"
    ELSE IF ~v.isAuthenticated
         THEN (IF hasFallback THEN "fallback" ELSE "null")
         ELSE "children"

\* What the component returns for the values it read.
Render(v, hasFallback) ==
    IF v.isLoading THEN "loading"
    ELSE IF ~v.isAuthenticated \/ ~Truthy(v.token)
         THEN (IF hasFallback THEN "fallback" ELSE "null")
         ELSE "children"

\* An effect without the early return on isLoading.
EffectRedirects_noLoadingTest(v, hasFallback) ==
    ~v.isAuthenticated \/ ~Truthy(v.token)

\* Whether the effect of a render that read v calls router.replace.
EffectRedirects(v, hasFallback) ==
    IF v.isLoading THEN FALSE
    ELSE ~v.isAuthenticated \/ ~Truthy(v.token)

\* The redirectTo parameter with its default value.
redirectTarget(prop) == IF prop = Null THEN DefaultRedirect ELSE prop

\* router.push in place of router.replace.
replace_push(history, target) == Append(history, target)

\* router.replace: the current history entry is replaced, none is added.
replace(history, target) == [history EXCEPT ![Len(history)] = target]

RenderNow ==
    /\ gView' = Selected(store)
    /\ gOut' = Render(Selected(store), fallback)
    /\ gMounted' = TRUE
    /\ effectPending' = TRUE
    /\ viewRedirects' = 0
    /\ notified' = FALSE
    /\ UNCHANGED <<store, hydration, bootRead, storage, inflight, touched, lastOp>>
    /\ UNCHANGED <<redirected, nav>>
    /\ UNCHANGED propVars
    /\ UNCHANGED runVars
    /\ UNCHANGED hookVars

\* First render of the guard.
GuardMount ==
    /\ ~gMounted
    /\ RenderNow

\* A store notification reaches the mounted guard: it renders again when a
\* selected value differs from what it last read.  Pending effects are
\* flushed before a component renders again.
GuardRerender ==
    /\ gMounted /\ notified /\ ~effectPending
    /\ Selected(store) # gView
    /\ RenderNow

GuardBailout ==
    /\ gMounted /\ notified /\ ~effectPending
    /\ Selected(store) = gView
    /\ notified' = FALSE
    /\ UNCHANGED <<store, hydration, bootRead, storage, inflight, touched, lastOp>>
    /\ UNCHANGED guardVars
    /\ UNCHANGED propVars
    /\ UNCHANGED runVars
    /\ UNCHANGED hookVars

\* The useEffect body, run once after each render whose dependencies changed.
GuardEffect ==
    /\ effectPending
    /\ effectPending' = FALSE
    /\ IF EffectRedirects(gView, fallback)
       THEN /\ nav' = replace(nav, redirectTarget(redirectTo))
            /\ viewRedirects' = viewRedirects + 1
            /\ redirected' = TRUE
       ELSE UNCHANGED <<nav, viewRedirects, redirected>>
    /\ UNCHANGED <<gMounted, gView, gOut>>
    /\ UNCHANGED storeVars
    /\ UNCHANGED propVars
    /\ UNCHANGED runVars
    /\ UNCHANGED hookVars

-----------------------------------------------------------------------------
(* useAuth and the login form *)

\* Strings the validators look into are sequences of one-character strings.
Letters ==
    {"a", "b", "c", "d", "e", "f", "g", "h", "i", "j", "k", "l", "m",
     "n", "o", "p", "q", "r", "s", "t", "u", "v", "w", "x", "y", "z"}
Digits == {"0", "1", "2", "3", "4", "5", "6", "7", "8", "9"}
Whitespace == {" "}

\* What the user may have typed into the two fields of the login form.
Emails ==
    { <<>>,
      <<"a", "n", "n">>,
      <<"a", "@", "b", ".", "c">>,
      <<"a", "@", "b", ".", "c", "o">> }
Passwords ==
    { <<>>,
      <<"a", "b", "c">>,
      <<" ", " ", " ", " ", " ", " ">>,
      <<"s", "e", "c", "r", "e", "t">> }

\* String.prototype.trim.
trim(str) ==
    LET kept == {i \in 1..Len(str) : str[i] \notin Whitespace} IN
      IF kept = {} THEN <<>>
      ELSE SubSeq(str, CHOOSE i \in kept : \A j \in kept : i <= j,
                       CHOOSE i \in kept : \A j \in kept : j <= i)

\* /^[^\s@]+@[^\s@]+\.[^\s@]+$/.test(str)
matchesFormEmail(str) ==
    \E at \in 2..Len(str) :
       /\ str[at] = "@"
       /\ \A j \in 1..Len(str) :
             j # at => (str[j] # "@" /\ str[j] \notin Whitespace)
       /\ \E dot \in (at + 2)..(Len(str) - 1) : str[dot] = "."

\* validateForm: the field errors it computes, Null for a field that passes.
validateForm(email, password) ==
    [email |->
        IF trim(email) = <<>> THEN "Email is required"
        ELSE IF ~matchesFormEmail(email)
             THEN "Please enter a valid email address"
             ELSE Null,
     password |->
        IF trim(password) = <<>> THEN "Password is required"
        ELSE IF Len(password) < 6
             THEN "Password must be at least 6 characters"
             ELSE Null]

NoFormErrors == [email |-> Null, password |-> Null]

\* A field error of SignupScreen: its fixed text and, for a weak password,
\* the feedback joined to it.  NoFieldError is `undefined`.
FieldError(text, feedback) == [text |-> text, feedback |-> feedback]
NoFieldError == FieldError(Null, <<>>)

\* SignupScreen's `errors` with no field set.
NoSignupErrors ==
    [email |-> NoFieldError, password |-> NoFieldError,
     confirmPassword |-> NoFieldError, general |-> NoFieldError]

Uppercase ==
    {"A", "B", "C", "D", "E", "F", "G", "H", "I", "J", "K", "L", "M",
     "N", "O", "P", "Q", "R", "S", "T", "U", "V", "W", "X", "Y", "Z"}
Specials ==
    {"!", "@", "#", "$", "%", "^", "&", "*", "(", ")", "_", "+", "-", "=",
     "[", "]", "{", "}", ";", "'", ":", "\"", "\\", "|", ",", ".", "<", ">",
     "/", "?"}

\* What the user may have typed into the three fields of the signup form.
SignupInputs ==
    { [email |-> <<>>, password |-> <<>>, confirmPassword |-> <<>>],
      [email |-> <<"a", "@", "b", ".", "c", "o">>,
       password |-> <<"a", "b", "c">>,
       confirmPassword |-> <<"a", "b", "c">>],
      [email |-> <<"a", "@", "b", ".", "c", "o">>,
       password |-> <<"a", "b", "1">>,
       confirmPassword |-> <<"a", "b", "1">>],
      [email |-> <<"a", "@", "b", ".", "c", "o">>,
       password |-> <<"S", "e", "c", "r", "e", "t", "1", "2">>,
       confirmPassword |-> <<"a", "b", "1">>],
      [email |-> <<"a", "@", "b", ".", "c", "o">>,
       password |-> <<"S", "e", "c", "r", "e", "t", "1", "2">>,
       confirmPassword |-> <<"S", "e", "c", "r", "e", "t", "1", "2">>] }

\* validatePasswordStrength: one point per check passed, one line of
\* feedback per check failed.
validatePasswordStrength(password) ==
    LET has(class) == \E i \in 1..Len(password) : password[i] \in class
        checks == << <<Len(password) >= 8, "Use at least 8 characters">>,
                     <<has(Letters), "Include lowercase letters">>,
                     <<has(Uppercase), "Include uppercase letters">>,
                     <<has(Digits), "Include numbers">>,
                     <<has(Specials), "Include special characters">> >>
        passed == {i \in 1..Len(checks) : checks[i][1]}
        failed(i) == IF checks[i][1] THEN <<>> ELSE <<checks[i][2]>>
    IN  [score |-> Cardinality(passed),
         feedback |-> failed(1) \o failed(2) \o failed(3) \o failed(4) \o failed(5)]

\* SignupScreen's validateForm: the field errors it computes.
validateSignupForm(input) ==
    [email |->
        IF trim(input.email) = <<>> THEN FieldError("Email is required", <<>>)
        ELSE IF ~matchesFormEmail(input.email)
             THEN FieldError("Please enter a valid email address", <<>>)
             ELSE NoFieldError,
     password |->
        IF trim(input.password) = <<>>
        THEN FieldError("Password is required", <<>>)
        ELSE LET validation == validatePasswordStrength(input.password) IN
               IF validation.score < 2
               THEN FieldError("Password is too weak. ", validation.feedback)
               ELSE NoFieldError,
     confirmPassword |->
        IF trim(input.confirmPassword) = <<>>
        THEN FieldError("Please confirm your password", <<>>)
        ELSE IF input.password # input.confirmPassword
             THEN FieldError("Passwords do not match", <<>>)
             ELSE NoFieldError,
     general |-> NoFieldError]

\* z.string().email(): zod's address pattern
\* /^(?!\.)(?!.*\.\.)([A-Z0-9_'+\-\.]*)[A-Z0-9_+-]@([A-Z0-9][A-Z0-9\-]*\.)+[A-Z]{2,}$/i
\* (the addresses above are lower case).
zodDomain(d) ==
    LET dots == {k \in 1..Len(d) : d[k] = "."} IN
      /\ dots # {}
      /\ LET last == CHOOSE k \in dots : \A j \in dots : j <= k IN
           /\ Len(d) - last >= 2
           /\ \A k \in (last + 1)..Len(d) : d[k] \in Letters
           /\ d[1] \in Letters \cup Digits
           /\ \A k \in 1..last : d[k] \in Letters \cup Digits \cup {"-", "."}
           /\ \A k \in dots : k < last => d[k + 1] \in Letters \cup Digits

zodEmail(str) ==
    /\ Len(str) > 0
    /\ str[1] # "."
    /\ \A k \in 1..(Len(str) - 1) : ~(str[k] = "." /\ str[k + 1] = ".")
    /\ \E at \in 2..Len(str) :
          /\ str[at] = "@"
          /\ \A j \in 1..(at - 2) :
                str[j] \in Letters \cup Digits \cup {"_", "'", "+", "-", "."}
          /\ str[at - 1] \in Letters \cup Digits \cup {"_", "+", "-"}
          /\ zodDomain(SubSeq(str, at + 1, Len(str)))

\* loginPayloadSchema.parse(credentials) does not throw.
loginPayloadSchema(credentials) ==
    /\ zodEmail(credentials.email)
    /\ Len(credentials.password) >= 6

\* Errors a mutation can end with, as far as the handlers look into them:
\* error.status, error.response.status (0 when absent) and error.code.
NoError == [name |-> "none", status |-> 0, response |-> 0, code |-> Null]
ZodError == [name |-> "ZodError", status |-> 0, response |-> 0, code |-> Null]
AxiosError(response, code) ==
    [name |-> "AxiosError", status |-> 0, response |-> response, code |-> code]
ServerErrors ==
    { AxiosError(401, "ERR_BAD_REQUEST"),
      [name |-> "ApiError", status |-> 401, response |-> 0, code |-> Null],
      AxiosError(400, "ERR_BAD_REQUEST"),
      AxiosError(500, "ERR_BAD_RESPONSE"),
      AxiosError(0, "ERR_NETWORK"),
      AxiosError(0, "ECONNABORTED") }
SignupErrors == {ZodError, AxiosError(400, "ERR_BAD_REQUEST")}
GoogleError ==
    [name |-> "Error", status |-> 0, response |-> 0, code |-> Null]

Idle == [status |-> "idle", error |-> NoError]
NoCredentials == [email |-> <<>>, password |-> <<>>]

\* A classification without the test of error.code.
loginErrorMessage_noNetwork(error) ==
    IF error.status = 401 \/ error.response = 401
    THEN "Invalid email or password. Please check your credentials and try again."
    ELSE IF error.status = 400 \/ error.response = 400
    THEN "Please check your email and password format."
    ELSE IF error.status = 500 \/ error.response = 500
    THEN "Server error. Please try again later."
    ELSE "Login failed. Please try again."

\* A classification that looks at error.status only, not at
\* error.response.status.
loginErrorMessage_statusOnly(error) ==
    IF error.status = 401
    THEN "Invalid email or password. Please check your credentials and try again."
    ELSE IF error.status = 400
    THEN "Please check your email and password format."
    ELSE IF error.status = 500
    THEN "Server error. Please try again later."
    ELSE IF error.code = "ERR_NETWORK"
    THEN "Network error. Please check your connection and try again."
    ELSE "Login failed. Please try again."

\* The message loginMutation's onError picks for an error.
loginErrorMessage(error) ==
    IF error.status = 401 \/ error.response = 401
    THEN "Invalid email or password. Please check your credentials and try again."
    ELSE IF error.status = 400 \/ error.response = 400
    THEN "Please check your email and password format."
    ELSE IF error.status = 500 \/ error.response = 500
    THEN "Server error. Please try again later."
    ELSE IF error.code = "ERR_NETWORK"
    THEN "Network error. Please check your connection and try again."
    ELSE "Login failed. Please try again."

\* A handler that calls no store operation.
Untouched ==
    /\ UNCHANGED storeVars
    /\ UNCHANGED guardVars
    /\ UNCHANGED propVars
    /\ UNCHANGED runVars

\* A button that can always be pressed.
FormButtonDisabled_never(disabled, loading) == FALSE

\* FormButton hands `disabled || loading` to its touchable.
FormButtonDisabled(disabled, loading) == disabled \/ loading

\* loginLoading and signupLoading as the hook returns them, and SignupScreen's
\* isSubmitting as a render sees it: handleSignup sets it and resets it in
\* one synchronous run.
loginLoading == login.status = "pending"
signupLoading == signup.status = "pending"
isSubmitting == FALSE

\* handleLogin: validate the form; when it passes, clear the local errors and
\* start the login mutation with the trimmed address.  The Sign In button is
\* disabled while the mutation is pending.
LoginSubmit ==
    /\ ~FormButtonDisabled(loginLoading, loginLoading)
    /\ \E email \in Emails, password \in Passwords :
         LET errors == validateForm(email, password) IN
           IF errors # NoFormErrors
           THEN /\ formErrors' = errors
                /\ UNCHANGED <<login, attempts, lateLogin>>
           ELSE /\ formErrors' = NoFormErrors
                /\ login' = [status |-> "pending", error |-> NoError,
                             credentials |-> [email |-> trim(email),
                                              password |-> password]]
                /\ attempts' = [attempts EXCEPT !.login = @ + 1]
                /\ lateLogin' = FALSE
    /\ edited' = {}
    /\ UNCHANGED <<signup, google>>
    /\ UNCHANGED <<cache, alert, signupErrors, profile, result>>
    /\ UNCHANGED storeVars
    /\ UNCHANGED guardVars
    /\ UNCHANGED propVars
    /\ UNCHANGED runVars

\* handleFieldChange: the field takes the typed value and its own error, if
\* any, is removed.  (What the fields hold is chosen when Sign In is pressed.)
FieldEdit ==
    /\ \E field \in {"email", "password"} :
         /\ edited' = edited \cup {field}
         /\ formErrors' = [formErrors EXCEPT ![field] = Null]
    /\ UNCHANGED <<login, signup, google, attempts, lateLogin>>
    /\ UNCHANGED <<cache, alert, signupErrors, profile, result>>
    /\ Untouched

\* authApi.login resolves with a token: onSuccess.
LoginSucceeds ==
    /\ login.status = "pending"
    /\ loginPayloadSchema(login.credentials)
    /\ \E token \in Tokens :
         Commit(setError(setToken(store, token), Null), "loginSuccess", token)
    /\ login' = [status |-> "success", error |-> NoError,
                 credentials |-> NoCredentials]
    /\ attempts' = [attempts EXCEPT !.login = @ - 1]
    /\ UNCHANGED <<signup, google, formErrors, lateLogin>>
    /\ UNCHANGED otherVars

\* authApi.login rejects: the payload check throws before any request, or the
\* request fails, or the response is not {token: string}.  onError.
LoginFails ==
    /\ login.status = "pending"
    /\ \E error \in IF loginPayloadSchema(login.credentials)
                    THEN ServerErrors \cup {ZodError}
                    ELSE {ZodError} :
         /\ Commit(setError(store, loginErrorMessage(error)), "loginError", Null)
         /\ login' = [status |-> "error", error |-> error,
                      credentials |-> NoCredentials]
    /\ attempts' = [attempts EXCEPT !.login = @ - 1]
    /\ UNCHANGED <<signup, google, formErrors, lateLogin>>
    /\ UNCHANGED otherVars

SignupSubmit ==
    /\ signup.status # "pending"
    /\ signup' = [status |-> "pending", error |-> NoError]
    /\ attempts' = [attempts EXCEPT !.signup = @ + 1]
    /\ UNCHANGED <<login, google, formErrors, lateLogin>>
    /\ UNCHANGED otherVars
    /\ Untouched

\* handleSignup, behind the Create Account button: validate the form; when
\* it passes, clear the local errors, start the signup mutation and put up
\* the "Account Created" dialog.  mutate() does not throw, so the catch
\* branch of the handler is never taken.
HandleSignup ==
    /\ ~FormButtonDisabled(isSubmitting \/ signupLoading,
                           isSubmitting \/ signupLoading)
    /\ \E input \in SignupInputs :
         LET errors == validateSignupForm(input) IN
           IF errors # NoSignupErrors
           THEN /\ signupErrors' = errors
                /\ UNCHANGED <<signup, attempts, alert>>
           ELSE /\ signupErrors' = NoSignupErrors
                /\ signup' = [status |-> "pending", error |-> NoError]
                /\ attempts' = [attempts EXCEPT !.signup = @ + 1]
                /\ alert' = "Account Created"
    /\ UNCHANGED <<login, google, formErrors, edited, lateLogin, cache, profile,
                   result>>
    /\ Untouched

\* OK on the dialog: router.replace("/auth/login").
AlertOk ==
    /\ alert # Null
    /\ alert' = Null
    /\ nav' = replace(nav, DefaultRedirect)
    /\ UNCHANGED <<gMounted, gView, gOut, effectPending, viewRedirects, redirected>>
    /\ UNCHANGED <<login, signup, google, formErrors, attempts, lateLogin>>
    /\ UNCHANGED <<edited, cache, signupErrors, profile, result>>
    /\ UNCHANGED storeVars
    /\ UNCHANGED propVars
    /\ UNCHANGED runVars

\* signupMutation's onSuccess only logs.
SignupSucceeds ==
    /\ signup.status = "pending"
    /\ signup' = [signup EXCEPT !.status = "success"]
    /\ attempts' = [attempts EXCEPT !.signup = @ - 1]
    /\ UNCHANGED <<login, google, formErrors, lateLogin>>
    /\ UNCHANGED otherVars
    /\ Untouched

\* signupMutation's onError only logs.
SignupFails ==
    /\ signup.status = "pending"
    /\ \E error \in SignupErrors :
         signup' = [status |-> "error", error |-> error]
    /\ attempts' = [attempts EXCEPT !.signup = @ - 1]
    /\ UNCHANGED <<login, google, formErrors, lateLogin>>
    /\ UNCHANGED otherVars
    /\ Untouched

GoogleLoginSubmit ==
    /\ google.status # "pending"
    /\ google' = [status |-> "pending", error |-> NoError]
    /\ UNCHANGED <<login, signup, formErrors, attempts, lateLogin>>
    /\ UNCHANGED otherVars
    /\ Untouched

\* An onError that stores no message.
googleErrorMessage_none(message) == Null

\* error.message || "Google login failed"
googleErrorMessage(message) ==
    IF Truthy(message) THEN message ELSE "Google login failed"

\* googleLoginMutation's mutationFn always throws; onError stores the
\* message of what it threw.
GoogleLoginFails ==
    /\ google.status = "pending"
    /\ Commit(setError(store,
                       googleErrorMessage("Google login not yet implemented on backend")),
              "googleLoginError", Null)
    /\ google' = [status |-> "error", error |-> GoogleError]
    /\ UNCHANGED <<login, signup, formErrors, attempts, lateLogin>>
    /\ UNCHANGED otherVars

\* A queryClient.clear() that leaves the cached responses in place.
clear_keeps(queries) == queries

\* queryClient.clear(): every cached query is removed.
clear(queries) == {}

\* logout: clearAuth, then the query cache is cleared.  A login request in
\* flight is not cancelled; its handlers still run when it settles.
Logout ==
    /\ Commit(clearAuth(store), "logout", [token |-> store.token, cached |-> cache])
    /\ cache' = clear(cache)
    /\ lateLogin' = (login.status = "pending")
    /\ UNCHANGED <<login, signup, google, formErrors, attempts>>
    /\ UNCHANGED <<edited, alert, signupErrors, profile, result>>

\* A screen's query, sent with the session's token, resolves and its response
\* is cached.
QueryFetched ==
    /\ store.isAuthenticated
    /\ Truthy(store.token)
    /\ cache' = cache \cup {store.token}
    /\ UNCHANGED <<login, signup, google, formErrors, attempts, lateLogin>>
    /\ UNCHANGED <<edited, alert, signupErrors, profile, result>>
    /\ Untouched

\* LoginScreen's errors.general: only the catch branch of handleGoogleLogin
\* sets it, and nothing in its try block throws.
errorsGeneral == Null

\* What the hook hands to its callers as loginError, signupError and
\* googleLoginError: a message string, an error object, or nothing.
Exposed(message, mutation) ==
    IF Truthy(message) THEN "message"
    ELSE IF mutation.error # NoError THEN "object"
    ELSE "nothing"

loginError == Exposed(store.error, login)
signupError == Exposed(Null, signup)
googleLoginError == Exposed(Null, google)

\* LoginScreen's banner: FormError's `visible`.
bannerVisible == Truthy(errorsGeneral) \/ loginError # "nothing"

-----------------------------------------------------------------------------

\* The process stops and starts again: memory and the writes that have not
\* landed are gone, storage stays; the store is created anew and issues its
\* storage read.
Restart ==
    /\ restarts < MaxRestarts
    /\ restarts' = restarts + 1
    /\ lost' = [isLoading |-> store.isLoading, error |-> store.error]
    /\ store' = InitialState
    /\ hydration' = "reading"
    /\ bootRead' = storage
    /\ inflight' = {}
    /\ notified' = FALSE
    /\ touched' = FALSE
    /\ lastOp' = [name |-> "create", arg |-> Null, again |-> FALSE]
    /\ gMounted' = FALSE
    /\ gView' = Selected(InitialState)
    /\ gOut' = "unmounted"
    /\ effectPending' = FALSE
    /\ viewRedirects' = 0
    /\ redirected' = FALSE
    /\ nav' = <<ProtectedRoute>>
    /\ login' = [status |-> "idle", error |-> NoError, credentials |-> NoCredentials]
    /\ signup' = Idle
    /\ google' = Idle
    /\ formErrors' = NoFormErrors
    /\ edited' = {}
    /\ attempts' = [login |-> 0, signup |-> 0]
    /\ cache' = {}
    /\ lateLogin' = FALSE
    /\ alert' = Null
    /\ signupErrors' = NoSignupErrors
    /\ UNCHANGED <<profile, result>>
    /\ UNCHANGED storage
    /\ UNCHANGED propVars

\* Process start: the store has just been created with its initial state and
\* the storage read is under way; no component has rendered yet.
Start ==
    /\ store = InitialState
    /\ hydration = "reading"
    /\ bootRead \in {<<>>} \cup {<<r>> : r \in PersistedRecords}
    /\ storage = bootRead
    /\ inflight = {}
    /\ restarts = 0
    /\ lost = [isLoading |-> FALSE, error |-> Null]
    /\ notified = FALSE
    /\ touched = FALSE
    /\ lastOp = [name |-> "create", arg |-> Null, again |-> FALSE]
    /\ gMounted = FALSE
    /\ gView = Selected(InitialState)
    /\ gOut = "unmounted"
    /\ effectPending = FALSE
    /\ viewRedirects = 0
    /\ redirected = FALSE
    /\ nav = <<ProtectedRoute>>
    /\ login = [status |-> "idle", error |-> NoError, credentials |-> NoCredentials]
    /\ signup = Idle
    /\ google = Idle
    /\ formErrors = NoFormErrors
    /\ edited = {}
    /\ attempts = [login |-> 0, signup |-> 0]
    /\ cache = {}
    /\ lateLogin = FALSE
    /\ alert = Null
    /\ signupErrors = NoSignupErrors
    /\ result = NoResult

\* The store on its own: no guard is rendered.
Init ==
    /\ Start
    /\ profile = NoUser
    /\ overlap = MaxInFlight
    /\ fallback = FALSE
    /\ redirectTo = Null

Next ==
    \/ SetToken
    \/ SetUser
    \/ SetError
    \/ SetLoading
    \/ ClearAuth
    \/ WriteLands
    \/ RehydrateMerge
    \/ RehydrateCallback

Spec == Init /\ [][Next]_vars

\* The store on its own, across restarts of the process.
InitRestart ==
    /\ Start
    /\ profile = NoUser
    /\ overlap = RestartInFlight
    /\ fallback = FALSE
    /\ redirectTo = Null

NextRestart ==
    \/ SetToken
    \/ SetUser
    \/ SetError
    \/ SetLoading
    \/ ClearAuth
    \/ WriteLands
    \/ RehydrateMerge
    \/ RehydrateCallback
    \/ Restart

SpecRestart == InitRestart /\ [][NextRestart]_vars

\* The store over a storage whose reads and writes can fail.
InitFaulty ==
    /\ Start
    /\ profile = NoUser
    /\ overlap = FaultyInFlight
    /\ fallback = FALSE
    /\ redirectTo = Null

NextFaulty ==
    \/ SetToken
    \/ SetUser
    \/ SetError
    \/ SetLoading
    \/ ClearAuth
    \/ WriteLands
    \/ WriteFails
    \/ RehydrateMerge
    \/ RehydrateCallback
    \/ RehydrateFails

SpecFaulty == InitFaulty /\ [][NextFaulty]_vars

\* The store read through getAuthHeader and the userDisplayName selector,
\* for every profile the user object can carry.
InitSelectors ==
    /\ Start
    /\ profile \in Profiles \cup {NoUser}
    /\ overlap = GuardInFlight
    /\ fallback = FALSE
    /\ redirectTo = Null

NextSelectors ==
    \/ SetToken
    \/ ClearAuth
    \/ RehydrateMerge
    \/ RehydrateCallback
    \/ GetAuthHeader
    \/ UserDisplayName

SpecSelectors == InitSelectors /\ [][NextSelectors]_vars

\* The store observed by a guard that wraps the current route, with or
\* without a fallback and with the default or a given redirect target.
InitGuard ==
    /\ Start
    /\ profile = NoUser
    /\ overlap = GuardInFlight
    /\ \/ fallback = FALSE /\ redirectTo \in {Null, CustomRedirect}
       \/ fallback = TRUE /\ redirectTo = Null

NextGuard ==
    \/ SetToken
    \/ SetUser
    \/ SetError
    \/ SetLoading
    \/ ClearAuth
    \/ RehydrateMerge
    \/ RehydrateCallback
    \/ GuardMount
    \/ GuardRerender
    \/ GuardBailout
    \/ GuardEffect

SpecGuard == InitGuard /\ [][NextGuard]_vars

\* The store driven by the useAuth hook, started with no record, with the
\* record of a session, or with a record whose token is present while
\* isAuthenticated is false.
InitAuth ==
    /\ Start
    /\ profile = NoUser
    /\ bootRead \in {<<>>,
                     <<[token |-> "t1", user |-> "u1", isAuthenticated |-> TRUE]>>,
                     <<[token |-> "t1", user |-> Null, isAuthenticated |-> FALSE]>>}
    /\ overlap = AuthInFlight
    /\ fallback = FALSE
    /\ redirectTo = Null

NextAuth ==
    \/ RehydrateMerge
    \/ RehydrateCallback
    \/ LoginSubmit
    \/ LoginSucceeds
    \/ LoginFails
    \/ SignupSubmit
    \/ SignupSucceeds
    \/ SignupFails
    \/ GoogleLoginSubmit
    \/ GoogleLoginFails

SpecAuth == InitAuth /\ [][NextAuth]_vars

\* Sessions that begin with a login, are used by queries and end with a
\* logout.
NextSession ==
    \/ RehydrateMerge
    \/ RehydrateCallback
    \/ LoginSubmit
    \/ LoginSucceeds
    \/ LoginFails
    \/ Logout
    \/ QueryFetched

SpecSession == InitAuth /\ [][NextSession]_vars

\* The login form and the signup form over the hook, shown to a user for
\* whom no session is stored.
InitForms ==
    /\ InitAuth
    /\ bootRead = <<>>

NextForms ==
    \/ RehydrateMerge
    \/ RehydrateCallback
    \/ LoginSubmit
    \/ LoginSucceeds
    \/ LoginFails
    \/ HandleSignup
    \/ AlertOk
    \/ SignupSucceeds
    \/ SignupFails

SpecForms == InitForms /\ [][NextForms]_vars

\* The login form on its own, over a store whose isLoading flag some
\* component may set.
NextLogin ==
    \/ SetLoading
    \/ FieldEdit
    \/ RehydrateMerge
    \/ RehydrateCallback
    \/ LoginSubmit
    \/ LoginSucceeds
    \/ LoginFails

SpecLogin == InitAuth /\ [][NextLogin]_vars

-----------------------------------------------------------------------------
(* Properties of the store (checked under Spec) *)

EmptySession ==
    /\ store.token = Null
    /\ store.user = Null
    /\ store.isAuthenticated = FALSE
    /\ store.isLoading = FALSE
    /\ store.error = Null

\* C1: in every reachable state of the store, whatever operations ran and
\* whatever record was rehydrated, isAuthenticated implies that the token is
\* present (not null).  The state between the two steps of hydrate() is left
\* out: the claim is about the states operations and rehydration end in.
C1_AuthenticatedImpliesToken ==
    (hydration # "merged" /\ store.isAuthenticated) => store.token # Null

\* C2: right after setToken(t) with a non-empty t, whatever the state before,
\* the token is t, isAuthenticated is true and error is null.
C2_SetTokenPost ==
    (lastOp.name = "setToken" /\ lastOp.arg # "")
        => /\ store.token = lastOp.arg
           /\ store.isAuthenticated = TRUE
           /\ store.error = Null

\* setToken has just run on a session that was loading and had a user.
C2_Witness ==
    /\ lastOp.name = "setToken"
    /\ lastOp.arg = "t1"
    /\ store.user # Null
    /\ store.isLoading

\* C3: right after clearAuth, whatever the state before, the session is the
\* empty one; this includes a clearAuth that directly follows a clearAuth,
\* which therefore yields the same state as the first.
C3_ClearAuthEmpty ==
    lastOp.name = "clearAuth" => EmptySession

\* clearAuth has just run for the second time in a row.
C3_Witness ==
    /\ lastOp.name = "clearAuth"
    /\ lastOp.again

\* A record that carries a token but says isAuthenticated false was read.
InconsistentRecord ==
    /\ bootRead # <<>>
    /\ Truthy(bootRead[1].token)
    /\ ~bootRead[1].isAuthenticated

\* C9: when rehydration from a record with a token and isAuthenticated false
\* has finished, the store holds that token and isAuthenticated is true.
C9_RepairRule ==
    (lastOp.name = "rehydrate" /\ InconsistentRecord)
        => /\ store.isAuthenticated = TRUE
           /\ store.token = bootRead[1].token

\* Rehydration from such a record has just finished.
C9_Witness ==
    /\ lastOp.name = "rehydrate"
    /\ InconsistentRecord
    /\ hydration = "done"

\* C10: when rehydration finds no record under the key and no operation has
\* run since the store was created, the store is left in the default session.
C10_NoRecordDefault ==
    (lastOp.name = "rehydrate" /\ bootRead = <<>> /\ ~touched) => EmptySession

\* Rehydration without a record has just finished on an untouched store.
C10_Witness ==
    /\ lastOp.name = "rehydrate"
    /\ hydration = "done"
    /\ bootRead = <<>>
    /\ ~touched

\* C11: what reaches storage never carries isLoading or error, and when the
\* process has been restarted and rehydration has finished on the new store,
\* isLoading is false and error is null whatever they were before the restart.
C11_TransientNotPersisted ==
    /\ \A w \in inflight : DOMAIN w = {"token", "user", "isAuthenticated"}
    /\ storage # <<>> => DOMAIN storage[1] = {"token", "user", "isAuthenticated"}
    /\ (restarts > 0 /\ lastOp.name = "rehydrate" /\ ~touched)
          => (store.isLoading = FALSE /\ store.error = Null)

\* The process stopped while loading with an error set, and the new store
\* has rehydrated a record the old one wrote.
C11_Witness ==
    /\ restarts > 0
    /\ lastOp.name = "rehydrate"
    /\ ~touched
    /\ lost.isLoading
    /\ lost.error # Null
    /\ bootRead # <<>>
    /\ bootRead[1].token = "t1"
    /\ bootRead[1].user = "u1"

\* The operations of the store that call set().
StoreOps == {"setToken", "setUser", "setError", "setLoading", "clearAuth"}

\* C12: when an operation was the last thing to change the store and every
\* write has landed, the record in storage is the persisted subset of the
\* in-memory state (so a restart restores what the last operation left).
C12_StorageFollowsState ==
    (lastOp.name \in StoreOps /\ inflight = {})
        => storage = <<partialize(store)>>

\* C13: writes land in the order of their mutations: a landing write that
\* changes storage is the snapshot of the latest mutation, or that snapshot is
\* still in flight behind it.
C13_WritesLandInOrder ==
    [][(lastOp.name \in StoreOps /\ store' = store /\ storage' # storage)
          => (storage' = <<partialize(store)>> \/ partialize(store) \in inflight')]_vars

\* C20: after startup (once rehydration has finished), every step in which
\* the token goes from present to absent or isAuthenticated goes from true to
\* false is a clearAuth.  setToken is called with non-empty strings.
C20_OnlyClearAuthInvalidates ==
    [][(/\ hydration = "done"
        /\ \/ Truthy(store.token) /\ ~Truthy(store'.token)
           \/ store.isAuthenticated /\ ~store'.isAuthenticated
        /\ ~(lastOp'.name = "setToken" /\ lastOp'.arg = ""))
          => lastOp'.name = "clearAuth"]_vars

\* clearAuth has just ended a session that was held after startup.
C20_Witness ==
    /\ hydration = "done"
    /\ lastOp.name = "clearAuth"
    /\ lastOp.arg = "t1"
    /\ store.token = Null
    /\ ~store.isAuthenticated

\* C22: a step in which the storage read fails leaves the store as it was,
\* which is the empty default session when no operation has run yet; a step
\* in which a storage write fails leaves the in-memory state as it was (the
\* mutation is not rolled back).
C22_StorageFailuresLeaveStore ==
    [][/\ (hydration = "reading" /\ hydration' = "failed")
            => /\ store' = store
               /\ ~touched => store' = InitialState
       /\ (storage' = storage /\ inflight' # inflight /\ inflight' \subseteq inflight)
            => store' = store]_vars

\* The read of a stored session has failed at startup and the store holds
\* the empty default session.
C22_Witness ==
    /\ hydration = "failed"
    /\ ~touched
    /\ bootRead # <<>>
    /\ bootRead[1].token = "t1"
    /\ bootRead[1].isAuthenticated
    /\ store = InitialState

\* C29: setError(m) sets error to m and isLoading to false and leaves token,
\* user and isAuthenticated as they were; setLoading changes isLoading only;
\* setUser changes user only; setToken leaves user and isLoading as they were.
C29_Frames ==
    [][/\ lastOp'.name = "setError"
            => /\ store'.error = lastOp'.arg
               /\ store'.isLoading = FALSE
               /\ store'.token = store.token
               /\ store'.user = store.user
               /\ store'.isAuthenticated = store.isAuthenticated
       /\ lastOp'.name = "setLoading"
            => store' = [store EXCEPT !.isLoading = store'.isLoading]
       /\ lastOp'.name = "setUser"
            => store' = [store EXCEPT !.user = store'.user]
       /\ lastOp'.name = "setToken"
            => /\ store'.user = store.user
               /\ store'.isLoading = store.isLoading]_vars

\* setError has just stored a message over a held session.
C29_Witness ==
    /\ lastOp.name = "setError"
    /\ lastOp.arg = "e1"
    /\ store = [token |-> "t1", user |-> "u1", isAuthenticated |-> TRUE,
                isLoading |-> FALSE, error |-> "e1"]

\* C16: in every reachable state of the store, an error is never present
\* while isLoading is true, whatever sequence of setError, setLoading,
\* setToken and clearAuth has run.
C16_NoErrorWhileLoading == ~(store.error # Null /\ store.isLoading)

-----------------------------------------------------------------------------
(* Properties of the guard (checked under SpecGuard) *)

\* The values the guard read make the session unauthenticated.
ViewUnauthenticated == ~gView.isAuthenticated \/ ~Truthy(gView.token)

\* C4: the guard's render returns the children exactly when the values it
\* read are isLoading false, isAuthenticated true and a token present, and the
\* effect of such a render issues no redirect.  Once the guard has seen every
\* notification of the store, the children are on screen only while the store
\* itself is authenticated and holds a token.
C4_ChildrenIffAuthenticated ==
    gMounted =>
        /\ (gOut = "children")
              <=> (~gView.isLoading /\ gView.isAuthenticated /\ Truthy(gView.token))
        /\ (gOut = "children" => viewRedirects = 0)
        /\ (gOut = "children" /\ ~notified)
              => (store.isAuthenticated /\ Truthy(store.token))

\* The children are on screen and the effect of that render has run.
C4_Witness ==
    /\ gMounted
    /\ gOut = "children"
    /\ ~effectPending

C6_FallbackNoRedirect ==
    (gMounted /\ fallback /\ ~gView.isLoading /\ ViewUnauthenticated)
        => /\ gOut = "fallback"
           /\ viewRedirects = 0

\* C7: without a fallback, a render that read isLoading false and an
\* unauthenticated session returns nothing; no redirect is issued during the
\* render, and its effect issues exactly one, which replaces the current
\* history entry by the configured target ("/auth/login" by default).
C7_OneReplaceRedirect ==
    (gMounted /\ ~fallback /\ ~gView.isLoading /\ ViewUnauthenticated)
        => /\ gOut = "null"
           /\ effectPending => viewRedirects = 0
           /\ ~effectPending =>
                 /\ viewRedirects = 1
                 /\ nav = <<IF redirectTo = Null THEN "/auth/login" ELSE redirectTo>>

\* The guard without fallback or redirectTo has redirected an
\* unauthenticated session.
C7_Witness ==
    /\ gMounted
    /\ ~fallback
    /\ redirectTo = Null
    /\ ~gView.isLoading
    /\ ViewUnauthenticated
    /\ ~effectPending
    /\ viewRedirects = 1

\* C14: no observer of the store ever reads a session in which a token is
\* present while isAuthenticated is false, rehydration and its repair step
\* included.
C14_NoPartialSessionObserved ==
    (gMounted /\ Truthy(gView.token)) => gView.isAuthenticated

\* C8: when storage holds an authenticated session at process start, no
\* redirect is issued before rehydration has completed.
C8_NoRedirectBeforeRehydration ==
    (/\ bootRead # <<>>
     /\ Truthy(bootRead[1].token)
     /\ bootRead[1].isAuthenticated
     /\ hydration # "done")
        => ~redirected

-----------------------------------------------------------------------------
(* Properties of the login form and the useAuth hook *)

Is401(error) == error.status = 401 \/ error.response = 401

\* C15: the step in which a pending login attempt fails with status 401 sets
\* the store's error to the invalid-credentials message and isLoading to
\* false, and leaves token and isAuthenticated as they were before the step.
C15_Login401 ==
    [][(login.status = "pending" /\ login'.status = "error" /\ Is401(login'.error))
          => /\ store'.error =
                  "Invalid email or password. Please check your credentials and try again."
             /\ store'.isLoading = FALSE
             /\ store'.token = store.token
             /\ store'.isAuthenticated = store.isAuthenticated]_vars

\* A login has just failed with 401 (as axios reports it) while a session was
\* held: the session is still there and the message is stored.
C15_Witness ==
    /\ lastOp.name = "loginError"
    /\ login.status = "error"
    /\ login.error.response = 401
    /\ store.token = "t1"
    /\ store.isAuthenticated
    /\ store.error =
          "Invalid email or password. Please check your credentials and try again."
    /\ ~store.isLoading

Failed(mutation, after) == mutation.status = "pending" /\ after.status = "error"

\* C17: every step in which the login, signup or Google login call fails
\* ends with a message string in the store's error, and the hook never hands
\* an error object to the screens.
C17_FailuresEndAsMessages ==
    [][/\ (Failed(login, login') \/ Failed(signup, signup') \/ Failed(google, google'))
          => Truthy(store'.error)
       /\ loginError' # "object"
       /\ signupError' # "object"
       /\ googleLoginError' # "object"]_vars

\* C18: a step in which the form refuses its input, or in which a pending
\* login ends because the payload check inside authApi.login refuses the
\* credentials, changes nothing in the store: its error stays as it was.
C18_LocalRejectionLeavesStore ==
    [][(\/ formErrors' # NoFormErrors /\ formErrors' # formErrors
        \/ /\ login.status = "pending"
           /\ ~loginPayloadSchema(login.credentials)
           /\ login'.status # "pending")
          => store' = store]_vars

\* The five classes of a login failure.
FailureClass(error) ==
    IF Is401(error) THEN "authentication rejection"
    ELSE IF error.status = 400 \/ error.response = 400 THEN "request shape"
    ELSE IF error.status = 500 \/ error.response = 500 THEN "server error"
    ELSE IF error.code = "ERR_NETWORK" THEN "network unreachable"
    ELSE "generic failure"

LoginFailures == ServerErrors \cup {ZodError}

\* C19: login failures fall into five classes (401, 400, 500, ERR_NETWORK,
\* generic); failures of one class get one message, failures of different
\* classes get different messages, and the message of the failure's class
\* is what the store's error holds once the failure has been handled.
C19_ClassifiedMessages ==
    /\ Cardinality({FailureClass(e) : e \in LoginFailures}) = 5
    /\ \A e1, e2 \in LoginFailures :
          (FailureClass(e1) = FailureClass(e2))
             <=> (loginErrorMessage(e1) = loginErrorMessage(e2))
    /\ (lastOp.name = "loginError" /\ login.status = "error")
          => store.error = loginErrorMessage(login.error)

\* A login has just failed because the network is unreachable, and the
\* store holds the network message.
C19_Witness ==
    /\ lastOp.name = "loginError"
    /\ login.status = "error"
    /\ login.error.code = "ERR_NETWORK"
    /\ store.error = "Network error. Please check your connection and try again."

-----------------------------------------------------------------------------
(* Properties of sessions (checked under SpecSession) *)

\* C21: right after a logout the store holds the empty session and the query
\* cache holds nothing: no state after a logout has an empty session together
\* with responses cached during the session that was ended.
C21_LogoutClearsCache ==
    lastOp.name = "logout" => (EmptySession /\ cache = {})

\* A logout has just ended a session under which responses had been cached.
C21_Witness ==
    /\ lastOp.name = "logout"
    /\ lastOp.arg.token = "t1"
    /\ lastOp.arg.cached = {"t1"}
    /\ EmptySession
    /\ cache = {}

-----------------------------------------------------------------------------
(* Properties of the forms (checked under SpecForms) *)

\* C23: at most one login request and at most one signup request is in
\* flight at any time, and while one is in flight the button of its form
\* cannot be pressed.
C23_OneAttemptPerForm ==
    /\ attempts.login <= 1
    /\ attempts.signup <= 1
    /\ attempts.login = 1 => FormButtonDisabled(loginLoading, loginLoading)
    /\ attempts.signup = 1 =>
          FormButtonDisabled(isSubmitting \/ signupLoading,
                             isSubmitting \/ signupLoading)

\* Both forms have a request in flight and both buttons are disabled.
C23_Witness ==
    /\ attempts.login = 1
    /\ attempts.signup = 1
    /\ FormButtonDisabled(loginLoading, loginLoading)
    /\ FormButtonDisabled(isSubmitting \/ signupLoading,
                          isSubmitting \/ signupLoading)

\* C28: the "Account Created" dialog is up only when the signup call has
\* succeeded, and when the signup call has failed the form shows a general
\* error and no such dialog.
C28_SignupOutcomeShown ==
    /\ alert = "Account Created" => signup.status = "success"
    /\ signup.status = "error"
         => (signupErrors.general # NoFieldError /\ alert # "Account Created")

-----------------------------------------------------------------------------
(* Properties of the login form's banner (checked under SpecLogin) *)

\* C24: a step in which the user edits a field of the login form, or in
\* which a login succeeds, leaves the error banner not displayed.
C24_BannerClears ==
    [][(\/ edited' # edited /\ edited' # {}
        \/ login.status = "pending" /\ login'.status = "success")
          => ~bannerVisible']_vars

-----------------------------------------------------------------------------
(* Properties of getAuthHeader and userDisplayName (checked under SpecSelectors) *)

\* C25: a call of getAuthHeader returns null when the token in the store at
\* the time of the call is absent, and "Bearer " followed by that token
\* otherwise; the call leaves the store as it was.
C25_AuthHeader ==
    [][(result' # result /\ result'.call = "getAuthHeader")
          => /\ store' = store
             /\ ~Truthy(store.token) => result'.isNull
             /\ Truthy(store.token) =>
                   /\ ~result'.isNull
                   /\ result'.chars =
                        <<"B", "e", "a", "r", "e", "r", " ">> \o tokenChars[store.token]]_vars

\* The header of a held session has been read.
C25_Witness ==
    /\ result.call = "getAuthHeader"
    /\ store.token = "t1"
    /\ ~result.isNull
    /\ result.chars = <<"B", "e", "a", "r", "e", "r", " ", "t", "1">>

\* C26: userDisplayName returns the user's name when there is one, otherwise
\* the part of the user's address before "@" when there is one, otherwise
\* "User" (also when there is no user).
C26_DisplayName ==
    result.call = "userDisplayName" =>
        result.chars =
            IF profile = NoUser THEN <<"U", "s", "e", "r">>
            ELSE IF profile.name # <<>> THEN profile.name
            ELSE IF splitAtFirst(profile.email) # <<>>
                 THEN splitAtFirst(profile.email)
                 ELSE <<"U", "s", "e", "r">>

\* The display name of a user without a name is the local part of the
\* address.
C26_Witness ==
    /\ result.call = "userDisplayName"
    /\ profile # NoUser
    /\ profile.name = <<>>
    /\ profile.email = <<"a", "n", "n", "@", "x", ".", "i", "o">>
    /\ result.chars = <<"a", "n", "n">>

-----------------------------------------------------------------------------
(* Properties of the Google login (checked under SpecAuth) *)

\* C27: a Google login never succeeds; the step in which it ends is a
\* failure that leaves the store with an error set and with token and
\* isAuthenticated as they were.
C27_GoogleLoginFails ==
    [][/\ google'.status # "success"
       /\ (google.status = "pending" /\ google'.status # "pending")
            => /\ google'.status = "error"
               /\ Truthy(store'.error)
               /\ store'.token = store.token
               /\ store'.isAuthenticated = store.isAuthenticated]_vars

\* A Google login has just failed while a session was held: the session is
\* still there and the error is set.
C27_Witness ==
    /\ lastOp.name = "googleLoginError"
    /\ google.status = "error"
    /\ store.token = "t1"
    /\ store.isAuthenticated
    /\ store.error = "Google login not yet implemented on backend"

\* C30: when a logout happens while a login request is in flight, the late
\* success of that request does not authenticate the session again.
C30_LateLoginIgnored ==
    (lateLogin /\ login.status = "success") => ~store.isAuthenticated

====
